---- MODULE Spec2Model ----
(***************************************************************************)
(* swarm-cronjob: the reconciler (SwarmCronjob.crudJob), the schedule      *)
(* registry (SwarmCronjob.jobs), the cron scheduler it drives, the         *)
(* external trigger endpoint (eventservice.handle, RunJobByEvent) and the  *)
(* completion waiter (WaitForEnd); then the event listener, the failures   *)
(* of the orchestrator's calls, and the goroutines around the registry map *)
(* and the job runner.                                                     *)
(***************************************************************************)
EXTENDS Integers, Sequences, FiniteSets, TLC

(***************************************************************************)
(* Bounds of the model.                                                    *)
(***************************************************************************)
\* cron.EntryID is an int counter that only grows; AddJob is not taken past it
MaxEntryID == 3
\* how many trigger requests the endpoint receives
MaxRequests == 1
\* how many tasks the orchestrator creates for one service
MaxTasks == 2
\* how many times one wait polls the task list before the model stops it
MaxPolls == 2
\* how many messages the event loop takes from the event stream
MaxEvents == 4

(***************************************************************************)
(* Names.                                                                  *)
(***************************************************************************)
Services == {"s1", "s2"}

LabelEnable == "swarm.cronjob.enable"
LabelSchedule == "swarm.cronjob.schedule"
LabelEventEnable == "swarm.cronjob.event.enable"
LabelEventKey == "swarm.cronjob.event.key"
LabelEventTimeout == "swarm.cronjob.event.timeout"
LabelSkipRunning == "swarm.cronjob.skip-running"
LabelReplicas == "swarm.cronjob.replicas"
LabelRegistryAuth == "swarm.cronjob.registry-auth"
LabelScaledown == "swarm.cronjob.scaledown"

(***************************************************************************)
(* Conversions of label values, computed as the libraries compute them.    *)
(***************************************************************************)
\* the characters of the label values the model uses (TLC cannot index a string)
Chars(v) ==
    CASE v = "" -> <<>>
      [] v = "0" -> <<"0">>
      [] v = "1" -> <<"1">>
      [] v = "2" -> <<"2">>
      [] v = "10" -> <<"1", "0">>
      [] v = "02" -> <<"0", "2">>
      [] v = "-1" -> <<"-", "1">>
      [] v = "x" -> <<"x">>
      [] v = "1s" -> <<"1", "s">>
      [] v = "2s" -> <<"2", "s">>
      [] v = "0s" -> <<"0", "s">>
      [] v = "s" -> <<"s">>
      [] OTHER -> <<"?">>

DigitValue(c) ==
    CASE c = "0" -> 0 [] c = "1" -> 1 [] c = "2" -> 2 [] c = "3" -> 3
      [] c = "4" -> 4 [] c = "5" -> 5 [] c = "6" -> 6 [] c = "7" -> 7
      [] c = "8" -> 8 [] c = "9" -> 9 [] OTHER -> -1

IsDigit(c) == DigitValue(c) >= 0

RECURSIVE DecimalValue(_)
DecimalValue(cs) ==
    IF cs = <<>> THEN 0
    ELSE 10 * DecimalValue(SubSeq(cs, 1, Len(cs) - 1)) + DigitValue(cs[Len(cs)])

\* strconv.ParseBool: the accepted spellings; anything else is (false, error)
ParseBool(v) ==
    IF v \in {"1", "t", "T", "TRUE", "true", "True"} THEN [val |-> TRUE, err |-> FALSE]
    ELSE IF v \in {"0", "f", "F", "FALSE", "false", "False"} THEN [val |-> FALSE, err |-> FALSE]
    ELSE [val |-> FALSE, err |-> TRUE]

\* strconv.ParseUint(v, 10, 64): digits only, no sign; a syntax error yields 0.
\* (the values of the model have at most two digits, so the range error,
\* which yields the largest uint64, does not arise)
ParseUint(v) ==
    LET cs == Chars(v) IN
    IF cs # <<>> /\ \A i \in 1..Len(cs) : IsDigit(cs[i])
    THEN [val |-> DecimalValue(cs), err |-> FALSE]
    ELSE [val |-> 0, err |-> TRUE]

\* time.ParseDuration on "<digits>s": seconds; anything else the model uses
\* ("", "s", "x", a bare number other than "0") is (0, error); "0" is 0
ParseDuration(v) ==
    LET cs == Chars(v) IN
    IF v = "0" THEN [val |-> 0, err |-> FALSE]
    ELSE IF Len(cs) >= 2 /\ cs[Len(cs)] = "s"
            /\ \A i \in 1..(Len(cs) - 1) : IsDigit(cs[i])
    THEN [val |-> DecimalValue(SubSeq(cs, 1, Len(cs) - 1)), err |-> FALSE]
    ELSE [val |-> 0, err |-> TRUE]

\* the fields of the schedule strings the model uses (strings.Fields)
ScheduleFields(spec) ==
    CASE spec = "" -> <<>>
      [] spec = "@daily" -> <<"@daily">>
      [] spec = "@hourly" -> <<"@hourly">>
      [] spec = "0 * * * *" -> <<"0", "*", "*", "*", "*">>
      [] spec = "* * * *" -> <<"*", "*", "*", "*">>
      [] spec = "bad" -> <<"bad">>
      [] OTHER -> <<spec>>

CronDescriptors ==
    {"@yearly", "@annually", "@monthly", "@weekly", "@daily", "@midnight", "@hourly"}

\* cron.Parser.Parse with SecondOptional | Minute | Hour | Dom | Month | Dow |
\* Descriptor: an empty string is rejected, a descriptor must be a known one,
\* anything else needs 5 or 6 fields, each a number or a star here
ScheduleAccepted(spec) ==
    LET fs == ScheduleFields(spec) IN
    /\ spec # ""
    /\ \/ spec \in CronDescriptors
       \/ /\ Len(fs) \in {5, 6}
          /\ \A i \in 1..Len(fs) : fs[i] = "*" \/ ParseUint(fs[i]).err = FALSE

(***************************************************************************)
(* The label values the orchestrator's services carry in the model.        *)
(***************************************************************************)
LabelValues(k) ==
    CASE k = LabelEnable -> {"true", "false", "yes"}
      [] k = LabelSchedule -> {"@daily", "0 * * * *", "bad"}
      [] k = LabelReplicas -> {"0", "2", "x"}
      [] k = LabelScaledown -> {"true", "false"}
      [] k = LabelEventEnable -> {"true", "false"}
      [] k = LabelEventKey -> {"k1"}
      [] k = LabelEventTimeout -> {"1s", "x"}
      [] k = LabelSkipRunning -> {"true"}
      [] k = LabelRegistryAuth -> {"true"}
      [] OTHER -> {}

Extend(f, k, v) == [x \in (DOMAIN f) \cup {k} |-> IF x = k THEN v ELSE f[x]]

Without(f, k) == [x \in (DOMAIN f) \ {k} |-> f[x]]

\* every label map over a subset of the keys ks, values from vals[k]
RECURSIVE LabelMapsOver(_, _)
LabelMapsOver(ks, vals) ==
    IF ks = <<>> THEN {<<>>}
    ELSE LET rest == LabelMapsOver(Tail(ks), vals)
             k == Head(ks)
         IN rest \cup {Extend(f, k, v) : f \in rest, v \in vals[k]}

AllLabelKeys ==
    {LabelEnable, LabelSchedule, LabelEventEnable, LabelEventKey, LabelEventTimeout,
     LabelSkipRunning, LabelReplicas, LabelRegistryAuth, LabelScaledown}

FullValues == [k \in AllLabelKeys |-> LabelValues(k)]

\* the label maps of the registry specification, for the service that takes
\* every combination of the labels that decide whether it is scheduled
RegistryLabelMaps ==
    LabelMapsOver(<<LabelEnable, LabelSchedule, LabelScaledown>>,
                  [FullValues EXCEPT ![LabelEnable] = {"true", "false"},
                                     ![LabelScaledown] = {"true"}])

\* and for the other service, which is switched on and off
OtherLabelMaps ==
    {f \in LabelMapsOver(<<LabelEnable, LabelSchedule>>,
                         [FullValues EXCEPT ![LabelEnable] = {"true", "false"},
                                            ![LabelSchedule] = {"@daily"}]) :
        DOMAIN f = {LabelEnable, LabelSchedule}}

\* the label maps of the label specification: one service; every value of
\* the enable label and of the scale-down label with a schedule that is
\* accepted, rejected or absent, and every value of the replicas label for
\* an enabled, scheduled service
BuilderLabelMaps ==
    {f \in LabelMapsOver(<<LabelEnable, LabelSchedule, LabelReplicas, LabelScaledown>>,
                         [FullValues EXCEPT ![LabelSchedule] = {"@daily", "bad"}]) :
        LabelReplicas \in DOMAIN f
            => (/\ LabelEnable \in DOMAIN f /\ f[LabelEnable] = "true"
                /\ LabelSchedule \in DOMAIN f /\ f[LabelSchedule] = "@daily")}

(***************************************************************************)
(* State.                                                                  *)
(***************************************************************************)
VARIABLES
    services,   \* the orchestrator: service name -> [exists, Labels]
    taskList,   \* the orchestrator: service name -> task id -> task state
    jobs,       \* SwarmCronjob.jobs: service name -> cron.EntryID
    entries,    \* cron.Cron entries: EntryID -> [Schedule, Job]
    nextID,     \* cron.Cron.nextID
    runs,       \* requests: how many trigger requests were received;
                \* calls: how many times RunJobByEvent called the job's Run;
                \* eligible: how many requests named a job they may trigger
    req,        \* the trigger request being handled by eventservice.handle
    last,       \* the call of crudJob that returned in the last step, with what
                \* it read and what it returned
    toggle,     \* progress of the service watched through enable true/false/true
    listener,   \* the event loop of SwarmCronjob.Run and what it did with its events
    calls,      \* goroutine -> the call of crudJob it is in, step by step
    proc,       \* crashed: the runtime ended the process; cron: whether the
                \* scheduler was started (cron.Start) or stopped (cron.Stop);
                \* run: where SwarmCronjob.Run is (before its service list,
                \* in its startup loop, in its event loop); list: the
                \* services of the list the startup loop has yet to visit
    runner      \* goroutine -> the execution of worker.Client.Run it is in

\* the state of the units of work that only some specifications run
aux == <<listener, calls, proc, runner>>

vars == <<services, taskList, jobs, entries, nextID, runs, req, last, toggle, aux>>

NoService == [exists |-> FALSE, Labels |-> <<>>]

\* the registry and the scheduler before anything was registered
NoRegistry == [jobs |-> <<>>, entries |-> <<>>, nextID |-> 0]

\* a job that starts enabled
NewJobEnabled(name) ==
    [Name |-> name, Enable |-> TRUE, Schedule |-> "", SkipRunning |-> FALSE,
     Replicas |-> 1, EventRun |-> FALSE, EventRunKey |-> "", EventTimeout |-> "",
     RegistryAuth |-> FALSE]

\* model.Job as crudJob constructs it before the label loop
NewJob(name) ==
    [Name |-> name, Enable |-> FALSE, Schedule |-> "", SkipRunning |-> FALSE,
     Replicas |-> 1, EventRun |-> FALSE, EventRunKey |-> "", EventTimeout |-> "",
     RegistryAuth |-> FALSE]

\* one case of the switch in the label loop
ApplyLabel(job, k, v) ==
    CASE k = LabelEnable -> [job EXCEPT !.Enable = ParseBool(v).val]
      [] k = LabelSchedule -> [job EXCEPT !.Schedule = v]
      [] k = LabelEventEnable -> [job EXCEPT !.EventRun = ParseBool(v).val]
      [] k = LabelEventKey -> [job EXCEPT !.EventRunKey = v]
      [] k = LabelEventTimeout -> [job EXCEPT !.EventTimeout = v]
      [] k = LabelSkipRunning -> [job EXCEPT !.SkipRunning = ParseBool(v).val]
      [] k = LabelReplicas -> [job EXCEPT !.Replicas = ParseUint(v).val]
      [] k = LabelRegistryAuth -> [job EXCEPT !.RegistryAuth = ParseBool(v).val]
      [] OTHER -> job

\* the label loop with the scale-down case leaving the switch, not the function
RECURSIVE LabelLoopNoReturn(_, _, _)
LabelLoopNoReturn(job, labels, keys) ==
    IF keys = {} THEN {[job |-> job, skip |-> FALSE]}
    ELSE UNION {LabelLoopNoReturn(ApplyLabel(job, k, labels[k]), labels, keys \ {k}) :
                   k \in keys}

\* the range over service.Labels from the job built so far, with keys still
\* to visit: a range over a Go map can take any of them next, so the result
\* is the set of the outcomes of every order; skip is the early return on
\* swarm.cronjob.scaledown = "true"
RECURSIVE LabelLoop(_, _, _)
LabelLoop(job, labels, keys) ==
    IF keys = {} THEN {[job |-> job, skip |-> FALSE]}
    ELSE UNION {IF k = LabelScaledown /\ labels[k] = "true"
                THEN {[job |-> job, skip |-> TRUE]}
                ELSE LabelLoop(ApplyLabel(job, k, labels[k]), labels, keys \ {k}) :
                   k \in keys}

\* AddJob without the parse of the schedule: every string is registered
AddJobUnparsed(es, id, spec, job) ==
    [entries |-> Extend(es, id + 1, [Schedule |-> spec, Job |-> job]),
     nextID |-> id + 1, id |-> id + 1, err |-> FALSE]

\* AddJob without the increment of nextID: every entry gets the same ID
AddJobReusesID(es, id, spec, job) ==
    IF ScheduleAccepted(spec)
    THEN [entries |-> Extend(es, id + 1, [Schedule |-> spec, Job |-> job]),
          nextID |-> id, id |-> id + 1, err |-> FALSE]
    ELSE [entries |-> es, nextID |-> id, id |-> 0, err |-> TRUE]

\* cron.Cron.AddJob: parse the schedule, then take the next entry ID
AddJob(es, id, spec, job) ==
    IF ScheduleAccepted(spec)
    THEN [entries |-> Extend(es, id + 1, [Schedule |-> spec, Job |-> job]),
          nextID |-> id + 1, id |-> id + 1, err |-> FALSE]
    ELSE [entries |-> es, nextID |-> id, id |-> 0, err |-> TRUE]

\* removeJob without the delete: the key stays in the registry
removeJobKeepsKey(js, es, serviceName, id) ==
    [jobs |-> js, entries |-> Without(es, id)]

\* removeJob without cron.Remove: the scheduler entry stays
removeJobLeaksEntry(js, es, serviceName, id) ==
    [jobs |-> Without(js, serviceName), entries |-> es]

\* SwarmCronjob.removeJob: delete(sc.jobs, serviceName); sc.cron.Remove(id)
removeJob(js, es, serviceName, id) ==
    [jobs |-> Without(js, serviceName), entries |-> Without(es, id)]

\* the outcomes of the label loop of crudJob over the orders in which the
\* range can visit the labels of svc
LabelLoops(serviceName, svc) ==
    LabelLoop(NewJob(serviceName), svc.Labels, DOMAIN svc.Labels)

(***************************************************************************)
(* What the labels of a service say, read off the labels themselves.       *)
(***************************************************************************)
HasLabel(svc, k) == svc.exists /\ k \in DOMAIN svc.Labels

LabelIs(svc, k, v) == HasLabel(svc, k) /\ svc.Labels[k] = v

EnableSaysTrue(svc) ==
    HasLabel(svc, LabelEnable) /\ svc.Labels[LabelEnable] \in {"1", "t", "T", "TRUE", "true", "True"}

ScheduleSaysValid(svc) ==
    HasLabel(svc, LabelSchedule) /\ ScheduleAccepted(svc.Labels[LabelSchedule])

ScaledownMarked(svc) == LabelIs(svc, LabelScaledown, "true")

\* the scheduler entries registered for a service
EntriesOf(s) == {id \in DOMAIN entries : entries[id].Job.Name = s}

(***************************************************************************)
(* History: the call of crudJob that has just returned, and the watch on   *)
(* one service's enable label going true, false, true with a reconcile     *)
(* after each change.                                                      *)
(***************************************************************************)
\* svc: the service description the call fetched (NoService when
\* docker.Service returned an error; fault: for a service that exists);
\* found, prevID: what it read from sc.jobs; before: the registry and the
\* scheduler when it read sc.jobs; repeat: the call before it was for the
\* same service and fetched the same description
NoOp(name, s) ==
    [op |-> name, service |-> s, changed |-> FALSE, err |-> FALSE, found |-> FALSE,
     repeat |-> FALSE, prevID |-> 0, svc |-> NoService, before |-> NoRegistry,
     fault |-> FALSE]

Idle == [phase |-> 0, service |-> "", schedule |-> "", jobs |-> 0, entries |-> 0]

\* the labels L differ from those of svc in the enable label alone
OnlyEnableChanged(svc, L) ==
    /\ svc.exists
    /\ DOMAIN L = DOMAIN svc.Labels
    /\ LabelEnable \in DOMAIN L
    /\ \A k \in DOMAIN L : k # LabelEnable => L[k] = svc.Labels[k]

\* the labels of the watched service change while no call of crudJob is in
\* progress (inCall: one is): the watch goes on when the enable label alone
\* changed, to false after the first reconcile, to true after the second
ToggleOnUpdate(s, L, inCall) ==
    IF ~inCall /\ toggle.service = s /\ OnlyEnableChanged(services[s], L)
       /\ toggle.phase = 1 /\ ~EnableSaysTrue([exists |-> TRUE, Labels |-> L])
       /\ ParseBool(L[LabelEnable]).err = FALSE
    THEN [toggle EXCEPT !.phase = 2]
    ELSE IF ~inCall /\ toggle.service = s /\ OnlyEnableChanged(services[s], L)
            /\ toggle.phase = 3 /\ EnableSaysTrue([exists |-> TRUE, Labels |-> L])
    THEN [toggle EXCEPT !.phase = 4]
    ELSE Idle

\* a call of crudJob for s returns, having fetched svc and left the registry
\* js and the scheduler entries es: the reconcile after a change of the
\* watched service, or the first reconcile of a watch, which fetched the
\* labels the service still has
ToggleOnReconcile(s, svc, js, es) ==
    IF toggle.service = s /\ toggle.phase \in {2, 4}
    THEN [toggle EXCEPT !.phase = toggle.phase + 1]
    ELSE IF EnableSaysTrue(svc) /\ services[s] = svc
            /\ s \in DOMAIN js /\ js[s] \in DOMAIN es
    THEN [phase |-> 1, service |-> s, schedule |-> es[js[s]].Schedule,
          jobs |-> Cardinality(DOMAIN js), entries |-> Cardinality(DOMAIN es)]
    ELSE Idle

(***************************************************************************)
(* Records of the units of work, and the initial state.                    *)
(***************************************************************************)
\* no request is being handled; jobFound, jobID and job are the locals of
\* RunJobByEvent and of WaitForEnd (job: the Job of wc), the fields past
\* body are history
NoRequest ==
    [pc |-> "idle", service |-> "", key |-> "", tasks |-> {}, jobFound |-> FALSE,
     jobID |-> 0, job |-> NewJob(""), watched |-> 0,
     timeout |-> 0, elapsed |-> 0, polls |-> 0, status |-> 0, body |-> "", task |-> 0,
     ran |-> FALSE, eligible |-> FALSE, mismatch |-> FALSE, configured |-> 0,
     firstNew |-> [poll |-> 0, new |-> {}, complete |-> {}], fault |-> ""]

\* the event loop before its first event
NewListener ==
    [pc |-> "listening", fatal |-> FALSE, taken |-> 0, dropped |-> 0,
     reconciled |-> 0, errors |-> 0]

\* the goroutine that calls crudJob: a, the goroutine of SwarmCronjob.Run
\* (its startup loop, then its event loop)
Callers == {"a"}

\* the goroutines that read or write sc.jobs: the caller of crudJob and h,
\* the handler of a trigger request (its position is req.pc)
Procs == Callers \cup {"h"}

\* a goroutine outside crudJob; the fields up to err are the locals of
\* crudJob and what it returned; fault: docker.Service returned an error for
\* a service that exists; the fields past fault are history, kept while the
\* call runs:
\* again, prevSvc: the call that returned in the step before this one began
\* was for the same service, and what it fetched; the others as in NoOp
NoCall ==
    [pc |-> "idle", service |-> "", jobFound |-> FALSE,
     jobID |-> 0, job |-> NewJob(""), then |-> "", changed |-> FALSE, err |-> FALSE,
     fault |-> FALSE, again |-> FALSE, prevSvc |-> NoService, repeat |-> FALSE,
     prevID |-> 0, svc |-> NoService, before |-> NoRegistry]

\* the process runs, the scheduler was made by cron.New and not started,
\* SwarmCronjob.Run has yet to list the services (run: "list", then
\* "startup" and "events", or "failed" when Run returned an error)
NewProcess == [crashed |-> FALSE, cron |-> "new", run |-> "list", list |-> {}]

\* the goroutines that execute worker.Client.Run: one that the scheduler
\* starts for a due entry, and the handler's, inside RunJobByEvent
Runners == {"cron", "event"}

NoRun == [pc |-> "idle", service |-> "", job |-> NewJob("")]

Init ==
    /\ listener = NewListener
    /\ runner = [r \in Runners |-> NoRun]
    /\ calls = [p \in Callers |-> NoCall]
    /\ proc = NewProcess
    /\ services = [s \in Services |-> NoService]
    /\ taskList = [s \in Services |-> <<>>]
    /\ jobs = <<>>
    /\ entries = <<>>
    /\ nextID = 0
    /\ runs = [requests |-> 0, calls |-> 0, eligible |-> 0]
    /\ req = NoRequest
    /\ last = NoOp("other", "")
    /\ toggle = Idle

(***************************************************************************)
(* The orchestrator: services are created, updated and removed, at any     *)
(* moment, also while a call of crudJob is in progress.                    *)
(***************************************************************************)
\* p is inside a call of crudJob
InCall(p) == calls[p].pc \notin {"idle", "returned"}

ServiceUpdate(s, maps) ==
    \E L \in maps :
        /\ services[s] # [exists |-> TRUE, Labels |-> L]
        /\ services' = [services EXCEPT ![s] = [exists |-> TRUE, Labels |-> L]]
        /\ toggle' = ToggleOnUpdate(s, L, InCall("a"))
        /\ last' = NoOp("other", "")
        /\ UNCHANGED <<aux, taskList, jobs, entries, nextID, runs, req>>

ServiceRemove(s) ==
    /\ services[s].exists
    /\ services' = [services EXCEPT ![s] = NoService]
    /\ toggle' = Idle
    /\ last' = NoOp("other", "")
    /\ UNCHANGED <<aux, taskList, jobs, entries, nextID, runs, req>>

(***************************************************************************)
(* The orchestrator's tasks: any actor (a cron firing, a triggered run, an *)
(* operator) may start a task of a service; a running task ends Complete   *)
(* or Failed.  taskList[s] is what docker.TaskList(s) returns.             *)
(***************************************************************************)
TaskStateRunning == "running"
TaskStateComplete == "complete"
TaskStateFailed == "failed"

TaskCreate(s) ==
    /\ Len(taskList[s]) < MaxTasks
    /\ taskList' = [taskList EXCEPT ![s] = Append(taskList[s], TaskStateRunning)]
    /\ toggle' = Idle
    /\ last' = NoOp("other", "")
    /\ UNCHANGED <<aux, services, jobs, entries, nextID, runs, req>>

TaskEnd(s) ==
    \E id \in DOMAIN taskList[s], st \in {TaskStateComplete, TaskStateFailed} :
        /\ taskList[s][id] = TaskStateRunning
        /\ taskList' = [taskList EXCEPT ![s][id] = st]
        /\ toggle' = Idle
        /\ last' = NoOp("other", "")
        /\ UNCHANGED <<aux, services, jobs, entries, nextID, runs, req>>

(***************************************************************************)
(* crudJob, step by step, on the goroutine of SwarmCronjob.Run.  Between   *)
(* its read of sc.jobs, its call of docker.Service (a network call) and    *)
(* its writes the orchestrator may change the service, and the handlers of *)
(* trigger requests and the scheduler run.  sc.jobs is a Go map with no    *)
(* lock around it: an access takes time, from the step before it to the    *)
(* step that completes it, and an access that overlaps a write of another  *)
(* goroutine is a data race.  The runtime may end the process (fatal       *)
(* error: concurrent map read and map write), the access may go through, a *)
(* read may miss the key, a write may be lost.  cron.Cron locks its own    *)
(* entries: its calls are one step.                                        *)
(***************************************************************************)
MapReads == {"lookup", "rlookup", "wlookup"}

MapWrites == {"delete", "store"}

InMapRead(p) == IF p = "h" THEN req.pc \in MapReads ELSE calls[p].pc \in MapReads

InMapWrite(p) == p # "h" /\ calls[p].pc \in MapWrites

\* the access of p to sc.jobs overlaps one of another goroutine, one of the
\* two being a write
Overlaps(p) ==
    \E q \in Procs \ {p} :
        \/ InMapWrite(q) /\ (InMapRead(p) \/ InMapWrite(p))
        \/ InMapWrite(p) /\ InMapRead(q)

\* what jobID, jobFound := sc.jobs[s] can yield for p
MapRead(p, s) ==
    LET now == [found |-> s \in DOMAIN jobs, id |-> IF s \in DOMAIN jobs THEN jobs[s] ELSE 0]
    IN IF Overlaps(p) THEN {now, [found |-> FALSE, id |-> 0]} ELSE {now}

\* whether a write of p to sc.jobs can take effect
MapWrite(p) == IF Overlaps(p) THEN {TRUE, FALSE} ELSE {TRUE}

\* crudJob returns (changed, err): its locals end, the history of the call
\* goes to last
Returned(changed, err) ==
    [NoCall EXCEPT !.pc = "returned", !.changed = changed, !.err = err]

\* a step of the call c of p that leaves it at n, the registry at js and the
\* scheduler's entries at es
CrudStep(p, c, n, js, es) ==
    /\ calls' = [calls EXCEPT ![p] = n]
    /\ last' = IF n.pc = "returned"
               THEN [op |-> "crudJob", service |-> c.service, changed |-> n.changed,
                     err |-> n.err, found |-> c.jobFound, repeat |-> c.repeat,
                     prevID |-> c.prevID, svc |-> c.svc, before |-> c.before,
                     fault |-> c.fault]
               ELSE NoOp("other", "")
    /\ toggle' = IF n.pc = "returned" THEN ToggleOnReconcile(c.service, c.svc, js, es)
                                      ELSE toggle

\* the runtime detects the overlapping accesses and ends the process
RuntimeFatal(p) ==
    /\ ~proc.crashed
    /\ Overlaps(p)
    /\ proc' = [proc EXCEPT !.crashed = TRUE]
    /\ toggle' = Idle
    /\ last' = NoOp("other", "")
    /\ UNCHANGED <<runner, listener, calls, services, taskList, jobs, entries, nextID, runs, req>>

\* what docker.ServiceList answers under the label filter of Run: the
\* services that carry both the enable and the schedule label
ServiceList ==
    {s \in Services : services[s].exists
                      /\ {LabelEnable, LabelSchedule} \subseteq DOMAIN services[s].Labels}

\* SwarmCronjob.Run: services, err := sc.docker.ServiceList(...) answers
\* with err == nil
RunServiceList ==
    /\ ~proc.crashed
    /\ proc.run = "list"
    /\ proc' = [proc EXCEPT !.run = "startup", !.list = ServiceList]
    /\ toggle' = Idle
    /\ last' = NoOp("other", "")
    /\ UNCHANGED <<listener, calls, runner, services, taskList, jobs, entries, nextID, runs, req>>

\* SwarmCronjob.Run: docker.ServiceList fails, if err != nil { return err }:
\* Run returns the error before any call of crudJob and before cron.Start
RunServiceListFails ==
    /\ ~proc.crashed
    /\ proc.run = "list"
    /\ proc' = [proc EXCEPT !.run = "failed"]
    /\ toggle' = Idle
    /\ last' = NoOp("other", "")
    /\ UNCHANGED <<listener, calls, runner, services, taskList, jobs, entries, nextID, runs, req>>

\* main, when sc.Run() returned an error: log.Panic() ends the process,
\* the HTTP server's goroutines with it
MainPanic ==
    /\ ~proc.crashed
    /\ proc.run = "failed"
    /\ proc' = [proc EXCEPT !.crashed = TRUE]
    /\ toggle' = Idle
    /\ last' = NoOp("other", "")
    /\ UNCHANGED <<listener, calls, runner, services, taskList, jobs, entries, nextID, runs, req>>

\* SwarmCronjob.Run: sc.cron.Start(), after the calls of crudJob for the
\* services of its list; the event loop follows
CronStart ==
    /\ ~proc.crashed
    /\ proc.run = "startup"
    /\ proc.list = {}
    /\ ~InCall("a")
    /\ proc' = [proc EXCEPT !.cron = "started", !.run = "events"]
    /\ toggle' = Idle
    /\ last' = NoOp("other", "")
    /\ UNCHANGED <<listener, calls, runner, services, taskList, jobs, entries, nextID, runs, req>>

\* crudJob is called, for a service of the list in the startup loop of Run
\* and for the service of an event in its event loop:
\* jobID, jobFound := sc.jobs[serviceName] begins
CrudEnter(p, s) ==
    /\ ~proc.crashed
    /\ ~InCall(p)
    /\ \/ proc.run = "startup" /\ s \in proc.list
       \/ proc.run = "events"
    /\ proc' = [proc EXCEPT !.list = @ \ {s}]
    /\ LET again == last.op = "crudJob" /\ last.service = s
       IN calls' = [calls EXCEPT ![p] =
                       [NoCall EXCEPT !.pc = "lookup", !.service = s, !.again = again,
                                      !.prevSvc = IF again THEN last.svc ELSE NoService]]
    /\ last' = NoOp("other", "")
    /\ toggle' = IF toggle.phase = 5 THEN Idle ELSE toggle
    /\ UNCHANGED <<runner, services, taskList, jobs, entries, nextID, runs, req>>

\* SwarmCronjob.Run calls crudJob for one more service: of its list at
\* startup, or of an event
CrudBegin(p, s) ==
    /\ CrudEnter(p, s)
    /\ UNCHANGED listener

\* jobID, jobFound := sc.jobs[serviceName] completes
CrudLookup(p) ==
    /\ ~proc.crashed
    /\ calls[p].pc = "lookup"
    /\ \E r \in MapRead(p, calls[p].service) :
          CrudStep(p, calls[p],
                   [calls[p] EXCEPT !.pc = "fetch", !.jobFound = r.found, !.jobID = r.id,
                                    !.prevID = r.id,
                                    !.before = [jobs |-> jobs, entries |-> entries,
                                                nextID |-> nextID]],
                   jobs, entries)
    /\ UNCHANGED <<runner, listener, proc, services, taskList, jobs, entries, nextID, runs, req>>

\* docker.Service returned svc (NoService when it returned an error), then
\* the label loop and the branches up to the first change: return,
\* removeJob (delete(sc.jobs, ...) begins) or cron.AddJob
CrudFetched(p, svc, fault) ==
    /\ ~proc.crashed
    /\ calls[p].pc = "fetch"
    /\ LET c == [calls[p] EXCEPT !.fault = fault, !.svc = svc,
                                 !.repeat = calls[p].again /\ calls[p].prevSvc = svc,
                                 !.again = FALSE, !.prevSvc = NoService]
       IN \E loop \in LabelLoops(c.service, svc) :
            CrudStep(p, c,
                IF ~svc.exists \/ (~loop.skip /\ ~loop.job.Enable)
                THEN (IF c.jobFound THEN [c EXCEPT !.pc = "delete", !.then = "return"]
                                    ELSE Returned(FALSE, FALSE))
                ELSE IF loop.skip THEN Returned(FALSE, FALSE)
                ELSE IF c.jobFound THEN [c EXCEPT !.pc = "delete", !.then = "add", !.job = loop.job]
                ELSE [c EXCEPT !.pc = "add", !.job = loop.job],
                jobs, entries)
    /\ UNCHANGED <<runner, listener, proc, services, taskList, jobs, entries, nextID, runs, req>>

\* docker.Service answers: it fails only for a service that does not exist
CrudFetch(p) == CrudFetched(p, services[calls[p].service], FALSE)

\* removeJob: delete(sc.jobs, serviceName) completes
CrudDelete(p) ==
    /\ ~proc.crashed
    /\ calls[p].pc = "delete"
    /\ \E applied \in MapWrite(p) :
          jobs' = IF applied
                  THEN removeJob(jobs, entries, calls[p].service, calls[p].jobID).jobs
                  ELSE jobs
    /\ CrudStep(p, calls[p], [calls[p] EXCEPT !.pc = "remove"], jobs', entries)
    /\ UNCHANGED <<runner, listener, proc, services, taskList, entries, nextID, runs, req>>

\* removeJob: sc.cron.Remove(id), then return true, nil or go on to cron.AddJob
CrudRemove(p) ==
    /\ ~proc.crashed
    /\ calls[p].pc = "remove"
    /\ entries' = removeJob(jobs, entries, calls[p].service, calls[p].jobID).entries
    /\ CrudStep(p, calls[p],
                IF calls[p].then = "add" THEN [calls[p] EXCEPT !.pc = "add"]
                                         ELSE Returned(TRUE, FALSE),
                jobs, entries')
    /\ UNCHANGED <<runner, listener, proc, services, taskList, jobs, nextID, runs, req>>

\* jobID, err = sc.cron.AddJob(...): return false, err, or
\* sc.jobs[serviceName] = jobID begins
CrudAdd(p) ==
    /\ ~proc.crashed
    /\ calls[p].pc = "add"
    /\ LET add == AddJob(entries, nextID, calls[p].job.Schedule, calls[p].job)
       IN /\ add.nextID <= MaxEntryID
          /\ entries' = add.entries
          /\ nextID' = add.nextID
          /\ CrudStep(p, calls[p],
                      IF add.err THEN Returned(FALSE, TRUE)
                                 ELSE [calls[p] EXCEPT !.pc = "store", !.jobID = add.id],
                      jobs, add.entries)
    /\ UNCHANGED <<runner, listener, proc, services, taskList, jobs, runs, req>>

\* sc.jobs[serviceName] = jobID completes; return true, err
CrudStore(p) ==
    /\ ~proc.crashed
    /\ calls[p].pc = "store"
    /\ \E applied \in MapWrite(p) :
          jobs' = IF applied THEN Extend(jobs, calls[p].service, calls[p].jobID) ELSE jobs
    /\ CrudStep(p, calls[p], Returned(TRUE, FALSE), jobs', entries)
    /\ UNCHANGED <<runner, listener, proc, services, taskList, entries, nextID, runs, req>>

\* the steps of a call of crudJob by p
CrudSteps(p) ==
    \/ CrudLookup(p)
    \/ CrudFetch(p)
    \/ CrudDelete(p)
    \/ CrudRemove(p)
    \/ CrudAdd(p)
    \/ CrudStore(p)

\* the goroutine of SwarmCronjob.Run: the service list, which ends Run and
\* the process when it fails, one call of crudJob after the other,
\* cron.Start between the startup loop and the event loop
RunSteps(s) ==
    \/ RunServiceList
    \/ RunServiceListFails
    \/ MainPanic
    \/ CrudBegin("a", s)
    \/ CrudSteps("a")
    \/ CronStart

\* SwarmCronjob.Run beside a handler, and the runtime ending the process on
\* a data race between the two
EventLoop(s) ==
    \/ RunSteps(s)
    \/ \E p \in {"a", "h"} : RuntimeFatal(p)

\* the schedule registry under label changes, removals and reconciles, while
\* no trigger request arrives
Next ==
    \/ ServiceUpdate("s1", RegistryLabelMaps)
    \/ ServiceUpdate("s2", OtherLabelMaps)
    \/ \E s \in Services :
          \/ ServiceRemove(s)
          \/ RunSteps(s)

Spec == Init /\ [][Next]_vars

\* the job spec builder: one service, every label value
NextLabels ==
    \/ ServiceUpdate("s1", BuilderLabelMaps)
    \/ ServiceRemove("s1")
    \/ RunSteps("s1")

SpecLabels == Init /\ [][NextLabels]_vars

(***************************************************************************)
(* The external trigger endpoint: eventservice.handle, step by step, on    *)
(* the goroutine h of one request.  Each read of sc.jobs and each call of  *)
(* sc.cron.Entry is a step of its own, and crudJob runs beside them on the *)
(* goroutine of the event loop.  A panic (a type assertion or a method     *)
(* call on the nil Job of a removed entry, a nil *worker.Client) is        *)
(* recovered by macaron.Classic's recovery handler and answered with 500.  *)
(***************************************************************************)
RequestKeys == {"k1", "k2"}

\* the process setting event-timeout, default '1h', in seconds; main hands it
\* to the event service, which sets the HTTP server's WriteTimeout from it
EventTimeoutDefault == 3600

\* the registry names, for the service, an entry of the scheduler
Registered(serviceName) ==
    serviceName \in DOMAIN jobs /\ jobs[serviceName] \in DOMAIN entries

\* a request that names a registered job with event runs enabled and its key
Eligible(serviceName, key) ==
    /\ Registered(serviceName)
    /\ entries[jobs[serviceName]].Job.EventRun
    /\ entries[jobs[serviceName]].Job.EventRunKey = key

\* a request that names a registered job with event runs enabled and another key
KeyMismatch(serviceName, key) ==
    /\ Registered(serviceName)
    /\ entries[jobs[serviceName]].Job.EventRun
    /\ entries[jobs[serviceName]].Job.EventRunKey # key

\* RunJobByEvent without the comparison of the key
RunJobByEventAnyKey(jobFound, wc, key) ==
    IF jobFound
    THEN wc.EventRun
    ELSE FALSE

\* the branches of SwarmCronjob.RunJobByEvent over what it read, jobFound
\* from sc.jobs and wc from the scheduler's entry: TRUE when it goes on to
\* call the job's Run
RunJobByEvent(jobFound, wc, key) ==
    IF jobFound
    THEN IF wc.EventRun
         THEN (IF wc.EventRunKey = key THEN TRUE ELSE FALSE)
         ELSE FALSE
    ELSE FALSE

\* handle returns (status, body); the locals of WaitForEnd end
Respond(r, status, body, task) ==
    [r EXCEPT !.pc = "done", !.status = status, !.body = body, !.task = task,
              !.jobID = 0, !.job = NewJob("")]

\* handle: tasks, err := app.Tasks(serviceName); RunJobByEvent is called and
\* jobID, jobFound := sc.jobs[serviceName] begins
HandleTasks(s, key) ==
    /\ ~proc.crashed
    /\ req.pc \in {"idle", "done"}
    /\ runs.requests < MaxRequests
    /\ req' = [NoRequest EXCEPT !.pc = "rlookup", !.service = s, !.key = key,
                                !.tasks = DOMAIN taskList[s]]
    /\ runs' = [runs EXCEPT !.requests = runs.requests + 1]
    /\ toggle' = Idle
    /\ last' = NoOp("other", "")
    /\ UNCHANGED <<aux, services, taskList, jobs, entries, nextID>>

\* RunJobByEvent: jobID, jobFound := sc.jobs[serviceName] completes; without
\* the key it returns.  eligible and mismatch record what the registry and
\* the scheduler held for the request at this moment
RunJobByEventLookup ==
    /\ ~proc.crashed
    /\ req.pc = "rlookup"
    /\ LET ok == Eligible(req.service, req.key)
       IN /\ \E r \in MapRead("h", req.service) :
                req' = [req EXCEPT !.pc = IF r.found THEN "rentry" ELSE "sleep",
                                   !.jobFound = r.found, !.jobID = r.id,
                                   !.eligible = ok,
                                   !.mismatch = KeyMismatch(req.service, req.key)]
          /\ runs' = [runs EXCEPT !.eligible = runs.eligible + (IF ok THEN 1 ELSE 0)]
    /\ toggle' = Idle
    /\ last' = NoOp("other", "")
    /\ UNCHANGED <<aux, services, taskList, jobs, entries, nextID>>

\* RunJobByEvent: wc := sc.cron.Entry(jobID).Job.(*worker.Client) and the
\* checks of EventRun and EventRunKey
RunJobByEventEntry ==
    /\ ~proc.crashed
    /\ req.pc = "rentry"
    /\ req' = IF req.jobID \notin DOMAIN entries
              THEN Respond(req, 500, "panic", 0)
              ELSE LET wc == entries[req.jobID].Job
                   IN [req EXCEPT !.pc = IF RunJobByEvent(req.jobFound, wc, req.key)
                                         THEN "rrun" ELSE "sleep",
                                  !.job = wc]
    /\ toggle' = Idle
    /\ last' = NoOp("other", "")
    /\ UNCHANGED <<aux, services, taskList, jobs, entries, nextID, runs>>

\* RunJobByEvent: sc.cron.Entry(jobID).Job.Run(), which returns
RunJobByEventRun ==
    /\ ~proc.crashed
    /\ req.pc = "rrun"
    /\ IF req.jobID \notin DOMAIN entries
       THEN /\ req' = Respond(req, 500, "panic", 0)
            /\ runs' = runs
       ELSE /\ req' = [req EXCEPT !.pc = "sleep", !.ran = TRUE]
            /\ runs' = [runs EXCEPT !.calls = runs.calls + 1]
    /\ toggle' = Idle
    /\ last' = NoOp("other", "")
    /\ UNCHANGED <<aux, services, taskList, jobs, entries, nextID>>

\* handle: time.Sleep ends, WaitForEnd is called and
\* jobID, jobFound := sc.jobs[serviceName] begins
HandleSleep ==
    /\ ~proc.crashed
    /\ req.pc = "sleep"
    /\ req' = [req EXCEPT !.pc = "wlookup"]
    /\ toggle' = Idle
    /\ last' = NoOp("other", "")
    /\ UNCHANGED <<aux, services, taskList, jobs, entries, nextID, runs>>

\* WaitForEnd: jobID, jobFound := sc.jobs[serviceName] completes; without
\* the key wc stays nil
WaitForEndLookup ==
    /\ ~proc.crashed
    /\ req.pc = "wlookup"
    /\ \E r \in MapRead("h", req.service) :
          req' = [req EXCEPT !.pc = IF r.found THEN "wentry" ELSE "list",
                             !.jobFound = r.found, !.jobID = r.id,
                             !.job = NewJob("")]
    /\ toggle' = Idle
    /\ last' = NoOp("other", "")
    /\ UNCHANGED <<aux, services, taskList, jobs, entries, nextID, runs>>

\* WaitForEnd: wc = sc.cron.Entry(jobID).Job.(*worker.Client)
WaitForEndEntry ==
    /\ ~proc.crashed
    /\ req.pc = "wentry"
    /\ req' = IF req.jobID \notin DOMAIN entries
              THEN Respond(req, 500, "panic", 0)
              ELSE [req EXCEPT !.pc = "list", !.job = entries[req.jobID].Job]
    /\ toggle' = Idle
    /\ last' = NoOp("other", "")
    /\ UNCHANGED <<aux, services, taskList, jobs, entries, nextID, runs>>

\* the tasks of a list that the snapshot does not hold, and those of them
\* that are Complete
NewTasks(list, snapshot) == (DOMAIN list) \ snapshot

CompleteTasks(list, snapshot) ==
    {id \in NewTasks(list, snapshot) : list[id] = TaskStateComplete}

\* history: the first poll of the wait that listed a task outside the snapshot
Observe(first, poll, list, snapshot) ==
    IF first.poll = 0 /\ NewTasks(list, snapshot) # {}
    THEN [poll |-> poll, new |-> NewTasks(list, snapshot),
          complete |-> CompleteTasks(list, snapshot)]
    ELSE first

\* WaitForEnd from its first docker.TaskList to the start of its wait loop:
\* the search for a task outside the snapshot (in the order of the list,
\* which the orchestrator decides), wc.Job.EventTimeout (wc is nil when the
\* key was not found) and the timer
WaitForEndStart ==
    /\ ~proc.crashed
    /\ req.pc = "list"
    /\ LET list == taskList[req.service]
           seen == [req EXCEPT !.polls = 1,
                               !.firstNew = Observe(req.firstNew, 1, list, req.tasks),
                               !.configured = IF req.jobFound
                                              THEN ParseDuration(req.job.EventTimeout).val
                                              ELSE 0]
       IN IF NewTasks(list, req.tasks) = {}
          THEN req' = Respond(seen, 500, "task list not found", 0)
          ELSE \E x \in NewTasks(list, req.tasks) :
                  IF ~req.jobFound
                  THEN req' = Respond(seen, 500, "nil pointer dereference", 0)
                  ELSE req' = [seen EXCEPT
                                  !.pc = "loop", !.watched = x,
                                  !.timeout = ParseDuration(req.job.EventTimeout).val]
    /\ toggle' = Idle
    /\ last' = NoOp("other", "")
    /\ UNCHANGED <<aux, services, taskList, jobs, entries, nextID, runs>>

\* one turn of the wait loop: the select finds nothing on the timer's
\* channel and takes the default case, docker.TaskList is called.  At the
\* deadline itself the timer's value may or may not have been delivered
WaitForEndSelect ==
    /\ ~proc.crashed
    /\ req.pc = "loop"
    /\ req.elapsed <= req.timeout
    /\ req.polls < MaxPolls
    /\ req' = [req EXCEPT !.pc = "poll"]
    /\ toggle' = Idle
    /\ last' = NoOp("other", "")
    /\ UNCHANGED <<aux, services, taskList, jobs, entries, nextID, runs>>

\* one turn of the wait loop whose select takes the timer's case
WaitForEndTimeout ==
    /\ ~proc.crashed
    /\ req.pc = "loop"
    /\ req.elapsed >= req.timeout
    /\ req' = Respond(req, 500, "Timeout", 0)
    /\ toggle' = Idle
    /\ last' = NoOp("other", "")
    /\ UNCHANGED <<aux, services, taskList, jobs, entries, nextID, runs>>

\* docker.TaskList answers in the wait loop: the state of the watched task
\* decides; Complete goes on to docker.TaskLogs, Failed returns its error,
\* anything else takes the loop to its select again
WaitForEndPoll ==
    /\ ~proc.crashed
    /\ req.pc = "poll"
    /\ LET tl == taskList[req.service]
           seen == [req EXCEPT !.polls = req.polls + 1,
                               !.firstNew = Observe(req.firstNew, req.polls + 1, tl, req.tasks)]
       IN IF req.watched \in DOMAIN tl /\ tl[req.watched] = TaskStateComplete
          THEN req' = [seen EXCEPT !.pc = "logs"]
          ELSE IF req.watched \in DOMAIN tl /\ tl[req.watched] = TaskStateFailed
          THEN req' = Respond(seen, 500, "task failed", req.watched)
          ELSE req' = [seen EXCEPT !.pc = "loop"]
    /\ toggle' = Idle
    /\ last' = NoOp("other", "")
    /\ UNCHANGED <<aux, services, taskList, jobs, entries, nextID, runs>>

\* docker.TaskLogs answers: return logs, nil
WaitForEndLogs ==
    /\ ~proc.crashed
    /\ req.pc = "logs"
    /\ req' = Respond(req, 200, "logs", req.watched)
    /\ toggle' = Idle
    /\ last' = NoOp("other", "")
    /\ UNCHANGED <<aux, services, taskList, jobs, entries, nextID, runs>>

\* a second passes while the wait loop runs or waits for the orchestrator
Tick ==
    /\ ~proc.crashed
    /\ req.pc \in {"loop", "poll", "logs"}
    /\ req.elapsed <= req.timeout
    /\ req' = [req EXCEPT !.elapsed = req.elapsed + 1]
    /\ toggle' = Idle
    /\ last' = NoOp("other", "")
    /\ UNCHANGED <<aux, services, taskList, jobs, entries, nextID, runs>>

\* RunJobByEvent, step by step
RunJobByEventSteps ==
    \/ RunJobByEventLookup
    \/ RunJobByEventEntry
    \/ RunJobByEventRun

\* WaitForEnd up to its wait loop, step by step
WaitForEndSteps ==
    \/ HandleSleep
    \/ WaitForEndLookup
    \/ WaitForEndEntry
    \/ WaitForEndStart

\* the wait loop of WaitForEnd, step by step, and the time that passes
WaitForEndLoop ==
    \/ WaitForEndSelect
    \/ WaitForEndTimeout
    \/ WaitForEndPoll
    \/ WaitForEndLogs
    \/ Tick

\* the label maps of the trigger specification: an enabled, scheduled service
\* with a key, event runs enabled or disabled
TriggerLabelMaps ==
    {Extend(Extend(f, LabelEnable, "true"), LabelSchedule, "@daily") :
        f \in {g \in LabelMapsOver(<<LabelEventEnable, LabelEventKey>>, FullValues) :
                  DOMAIN g = {LabelEventEnable, LabelEventKey}}}

\* trigger requests for a service that is reconciled and for one that never
\* exists, while the orchestrator starts no task
NextTrigger ==
    \/ ServiceUpdate("s1", TriggerLabelMaps)
    \/ EventLoop("s1")
    \/ \E s \in Services, key \in RequestKeys : HandleTasks(s, key)
    \/ RunJobByEventSteps
    \/ WaitForEndSteps

SpecTrigger == Init /\ [][NextTrigger]_vars

\* the label maps of the wait specification: a service that event runs are
\* enabled for, with and without a timeout of its own
WaitLabelMaps ==
    {Extend(Extend(Extend(Extend(f, LabelEnable, "true"), LabelSchedule, "@daily"),
                   LabelEventEnable, "true"), LabelEventKey, "k1") :
        f \in LabelMapsOver(<<LabelEventTimeout>>,
                            [FullValues EXCEPT ![LabelEventTimeout] = {"1s"}])}

\* those with a timeout of the job's own, and those without
TimedLabelMaps == {f \in WaitLabelMaps : LabelEventTimeout \in DOMAIN f}

UntimedLabelMaps == {f \in WaitLabelMaps : LabelEventTimeout \notin DOMAIN f}

\* trigger requests with the job's key and their waits while tasks start and
\* end, for a job with a timeout of its own
NextWait ==
    \/ ServiceUpdate("s1", TimedLabelMaps)
    \/ EventLoop("s1")
    \/ TaskCreate("s1")
    \/ TaskEnd("s1")
    \/ HandleTasks("s1", "k1")
    \/ RunJobByEventSteps
    \/ WaitForEndSteps
    \/ WaitForEndLoop

SpecWait == Init /\ [][NextWait]_vars

\* trigger requests with the job's key or another and their waits while
\* tasks start and end, for a job without a timeout of its own
NextWaitDefault ==
    \/ ServiceUpdate("s1", UntimedLabelMaps)
    \/ EventLoop("s1")
    \/ TaskCreate("s1")
    \/ TaskEnd("s1")
    \/ \E key \in RequestKeys : HandleTasks("s1", key)
    \/ RunJobByEventSteps
    \/ WaitForEndSteps
    \/ WaitForEndLoop

SpecWaitDefault == Init /\ [][NextWaitDefault]_vars

\* the label maps of the registry guard specification: event runs enabled,
\* the service enabled or disabled
GuardLabelMaps ==
    {Extend(Extend(Extend(f, LabelSchedule, "@daily"), LabelEventEnable, "true"),
            LabelEventKey, "k1") :
        f \in LabelMapsOver(<<LabelEnable>>,
                            [FullValues EXCEPT ![LabelEnable] = {"true", "false"}]) \ {<<>>}}

\* the event loop reconciling a service that changes or is removed, beside
\* the handler of a trigger request for it
NextGuard ==
    \/ ServiceUpdate("s1", GuardLabelMaps)
    \/ ServiceRemove("s1")
    \/ TaskCreate("s1")
    \/ EventLoop("s1")
    \/ \E key \in RequestKeys : HandleTasks("s1", key)
    \/ RunJobByEventSteps
    \/ WaitForEndSteps

SpecGuard == Init /\ [][NextGuard]_vars

(***************************************************************************)
(* The job runner beside the scheduler.  cron.New is given a parser and no *)
(* job wrapper, so the scheduler, once started, starts the Run of a due    *)
(* entry on a goroutine of its own, whatever else is running;              *)
(* RunJobByEvent calls the same job's Run on the handler's goroutine.  Run *)
(* itself (scale the service up, unless skip-running is set and a task     *)
(* still runs) is outside the sources at hand and follows the design's     *)
(* section 4.4.                                                            *)
(***************************************************************************)
InRun(r) == runner[r].pc \in {"check", "scale"}

\* SwarmCronjob.Close: sc.cron.Stop() stops a scheduler that runs, and does
\* nothing to one that was not started; the runs in progress go on
Close ==
    /\ ~proc.crashed
    /\ proc' = [proc EXCEPT !.cron = IF proc.cron = "started" THEN "stopped" ELSE proc.cron]
    /\ toggle' = Idle
    /\ last' = NoOp("other", "")
    /\ UNCHANGED <<listener, calls, runner, services, taskList, jobs, entries, nextID, runs, req>>

\* the scheduler, started and not stopped, finds an entry due and starts its
\* job's Run
CronFire ==
    /\ ~proc.crashed
    /\ proc.cron = "started"
    /\ runner["cron"].pc = "idle"
    /\ \E id \in DOMAIN entries :
          runner' = [runner EXCEPT !["cron"] = [pc |-> "check",
                                                service |-> entries[id].Job.Name,
                                                job |-> entries[id].Job]]
    /\ toggle' = Idle
    /\ last' = NoOp("other", "")
    /\ UNCHANGED <<listener, calls, proc, services, taskList, jobs, entries, nextID, runs, req>>

\* RunJobByEvent: sc.cron.Entry(jobID).Job.Run() is called
RunJobByEventCall ==
    /\ ~proc.crashed
    /\ req.pc = "rrun"
    /\ runner["event"].pc = "idle"
    /\ IF req.jobID \notin DOMAIN entries
       THEN /\ req' = Respond(req, 500, "panic", 0)
            /\ UNCHANGED <<runs, runner>>
       ELSE /\ req' = [req EXCEPT !.pc = "run", !.ran = TRUE]
            /\ runs' = [runs EXCEPT !.calls = runs.calls + 1]
            /\ runner' = [runner EXCEPT !["event"] =
                              [pc |-> "check", service |-> entries[req.jobID].Job.Name,
                               job |-> entries[req.jobID].Job]]
    /\ toggle' = Idle
    /\ last' = NoOp("other", "")
    /\ UNCHANGED <<listener, calls, proc, services, taskList, jobs, entries, nextID>>

\* Run: with skip-running set and a task of the service still running the
\* run is skipped; otherwise it goes on to scale the service up
RunCheck(r) ==
    /\ ~proc.crashed
    /\ runner[r].pc = "check"
    /\ LET tl == taskList[runner[r].service]
           active == \E id \in DOMAIN tl : tl[id] = TaskStateRunning
       IN runner' = [runner EXCEPT ![r].pc = IF runner[r].job.SkipRunning /\ active
                                            THEN "returned" ELSE "scale"]
    /\ toggle' = Idle
    /\ last' = NoOp("other", "")
    /\ UNCHANGED <<listener, calls, proc, services, taskList, jobs, entries, nextID, runs, req>>

\* Run: the service is scaled up and the orchestrator starts a task
RunScale(r) ==
    /\ ~proc.crashed
    /\ runner[r].pc = "scale"
    /\ Len(taskList[runner[r].service]) < MaxTasks
    /\ taskList' = [taskList EXCEPT ![runner[r].service] = Append(@, TaskStateRunning)]
    /\ runner' = [runner EXCEPT ![r].pc = "returned"]
    /\ toggle' = Idle
    /\ last' = NoOp("other", "")
    /\ UNCHANGED <<listener, calls, proc, services, jobs, entries, nextID, runs, req>>

\* Run returns: the scheduler's goroutine ends, the handler goes on to its sleep
RunReturn(r) ==
    /\ ~proc.crashed
    /\ runner[r].pc = "returned"
    /\ runner' = [runner EXCEPT ![r] = NoRun]
    /\ req' = IF r = "event" THEN [req EXCEPT !.pc = "sleep"] ELSE req
    /\ toggle' = Idle
    /\ last' = NoOp("other", "")
    /\ UNCHANGED <<listener, calls, proc, services, taskList, jobs, entries, nextID, runs>>

\* the label map of the runner specification: the service enabled, event
\* runs enabled and skip-running set
RunnerLabelMaps ==
    {Extend(f, LabelSkipRunning, "true") : f \in {g \in GuardLabelMaps : g[LabelEnable] = "true"}}

\* calendar firings and a trigger request for a service with skip-running
NextRunner ==
    \/ ServiceUpdate("s1", RunnerLabelMaps)
    \/ EventLoop("s1")
    \/ Close
    \/ CronFire
    \/ HandleTasks("s1", "k1")
    \/ RunJobByEventLookup
    \/ RunJobByEventEntry
    \/ RunJobByEventCall
    \/ \E r \in Runners : RunCheck(r)
    \/ \E r \in Runners : RunScale(r)
    \/ \E r \in Runners : RunReturn(r)
    \/ TaskEnd("s1")

SpecRunner == Init /\ [][NextRunner]_vars

(***************************************************************************)
(* Failures of the orchestrator's calls: docker.Service, docker.TaskList   *)
(* and docker.TaskLogs return an error although the service, its tasks and *)
(* their logs exist; docker.ServiceList fails in RunServiceListFails.      *)
(***************************************************************************)
\* crudJob when docker.Service fails for a service that exists
CrudFetchFails(p) ==
    /\ calls[p].pc = "fetch"
    /\ services[calls[p].service].exists
    /\ CrudFetched(p, NoService, TRUE)

\* handle when app.Tasks fails: return 500, err.Error()
HandleTasksFails(s, key) ==
    /\ ~proc.crashed
    /\ req.pc \in {"idle", "done"}
    /\ runs.requests < MaxRequests
    /\ req' = Respond([NoRequest EXCEPT !.service = s, !.key = key, !.fault = "Tasks"],
                      500, "task list error", 0)
    /\ runs' = [runs EXCEPT !.requests = runs.requests + 1]
    /\ toggle' = Idle
    /\ last' = NoOp("other", "")
    /\ UNCHANGED <<aux, services, taskList, jobs, entries, nextID>>

\* WaitForEnd when its first docker.TaskList fails: return "", err
WaitForEndStartListFails ==
    /\ ~proc.crashed
    /\ req.pc = "list"
    /\ req' = Respond([req EXCEPT !.polls = 1, !.fault = "TaskList"],
                      500, "task list error", 0)
    /\ toggle' = Idle
    /\ last' = NoOp("other", "")
    /\ UNCHANGED <<aux, services, taskList, jobs, entries, nextID, runs>>

\* docker.TaskList fails in the wait loop: tl, _ := drops the error, the
\* range over the list that came with it (none) finds nothing and the loop
\* goes to its select again
WaitForEndPollListFails ==
    /\ ~proc.crashed
    /\ req.pc = "poll"
    /\ req' = [req EXCEPT !.pc = "loop", !.polls = req.polls + 1, !.fault = "TaskList"]
    /\ toggle' = Idle
    /\ last' = NoOp("other", "")
    /\ UNCHANGED <<aux, services, taskList, jobs, entries, nextID, runs>>

\* docker.TaskLogs fails for the watched task, found Complete: the error is
\* logged, return logs, nil with logs ""
WaitForEndLogsFail ==
    /\ ~proc.crashed
    /\ req.pc = "logs"
    /\ req' = Respond([req EXCEPT !.fault = "TaskLogs"], 200, "", req.watched)
    /\ toggle' = Idle
    /\ last' = NoOp("other", "")
    /\ UNCHANGED <<aux, services, taskList, jobs, entries, nextID, runs>>

\* the label map of the fault specification: event runs enabled, no timeout
\* label
FaultLabelMaps == UntimedLabelMaps

\* trigger requests, waits and reconciles while the orchestrator's calls may fail
NextFaults ==
    \/ ServiceUpdate("s1", FaultLabelMaps)
    \/ EventLoop("s1")
    \/ CrudFetchFails("a")
    \/ TaskCreate("s1")
    \/ TaskEnd("s1")
    \/ HandleTasks("s1", "k1")
    \/ HandleTasksFails("s1", "k1")
    \/ RunJobByEventSteps
    \/ WaitForEndSteps
    \/ WaitForEndStartListFails
    \/ WaitForEndLoop
    \/ WaitForEndPollListFails
    \/ WaitForEndLogsFail

SpecFaults == Init /\ [][NextFaults]_vars

(***************************************************************************)
(* The event listener: the select loop of SwarmCronjob.Run over the        *)
(* message channel and the error channel of docker.Events.                 *)
(***************************************************************************)
\* the listener after a message, with the continue on a decode failure and on
\* an error of crudJob replaced by the end of the loop
AfterEventStopsOnError(l, decoded, err) ==
    [l EXCEPT !.pc = IF ~decoded \/ err THEN "exited" ELSE "listening",
              !.taken = l.taken + 1,
              !.dropped = l.dropped + (IF decoded THEN 0 ELSE 1),
              !.reconciled = l.reconciled + (IF decoded THEN 1 ELSE 0),
              !.errors = l.errors + (IF decoded /\ err THEN 1 ELSE 0)]

\* the listener after case msg := <-msgs: a message that did not decode is
\* dropped (continue), one that decoded went to crudJob, whose error is
\* logged (continue); the loop goes to its select again in every case
AfterEvent(l, decoded, err) ==
    [l EXCEPT !.pc = "listening",
              !.taken = l.taken + 1,
              !.dropped = l.dropped + (IF decoded THEN 0 ELSE 1),
              !.reconciled = l.reconciled + (IF decoded THEN 1 ELSE 0),
              !.errors = l.errors + (IF decoded /\ err THEN 1 ELSE 0)]

\* case msg := <-msgs, for a message about service s: mapstructure.Decode
\* fails and the message is dropped, or crudJob is called
ListenerMsg(s, decodes) ==
    /\ proc.run = "events"
    /\ listener.pc = "listening"
    /\ listener.taken < MaxEvents
    /\ IF decodes
       THEN /\ CrudEnter("a", s)
            /\ listener' = [listener EXCEPT !.pc = "crudJob"]
       ELSE /\ ~proc.crashed
            /\ listener' = AfterEvent(listener, FALSE, FALSE)
            /\ toggle' = Idle
            /\ last' = NoOp("other", "")
            /\ UNCHANGED <<calls, proc, runner, services, taskList, jobs, entries,
                           nextID, runs, req>>

\* the startup loop of Run calls crudJob for a service of its list
StartupCall(s) ==
    /\ proc.run = "startup"
    /\ CrudBegin("a", s)

\* crudJob returned to the event loop: its error is logged, the loop goes on
ListenerReturned ==
    /\ ~proc.crashed
    /\ listener.pc = "crudJob"
    /\ calls["a"].pc = "returned"
    /\ listener' = AfterEvent(listener, TRUE, calls["a"].err)
    /\ toggle' = Idle
    /\ last' = NoOp("other", "")
    /\ UNCHANGED <<calls, proc, runner, services, taskList, jobs, entries, nextID, runs, req>>

\* case err := <-errs: log.Fatal ends the process
ListenerErr ==
    /\ ~proc.crashed
    /\ proc.run = "events"
    /\ listener.pc = "listening"
    /\ listener' = [listener EXCEPT !.pc = "exited", !.fatal = TRUE]
    /\ toggle' = Idle
    /\ last' = NoOp("other", "")
    /\ UNCHANGED <<calls, proc, runner, services, taskList, jobs, entries, nextID, runs, req>>

\* the event loop under messages that decode or not, for a service that
\* changes and for one that never exists, and under an error of the stream
NextListener ==
    \/ ServiceUpdate("s1", RegistryLabelMaps)
    \/ ServiceRemove("s1")
    \/ RunServiceList
    \/ RunServiceListFails
    \/ MainPanic
    \/ StartupCall("s1")
    \/ CronStart
    \/ \E s \in Services, decodes \in BOOLEAN : ListenerMsg(s, decodes)
    \/ CrudSteps("a")
    \/ ListenerReturned
    \/ ListenerErr

SpecListener == Init /\ [][NextListener]_vars

(***************************************************************************)
(* Properties of the schedule registry.  A call of crudJob is judged in    *)
(* the state it returns in, by what it fetched (last.svc) and by the       *)
(* registry and the scheduler it found (last.before).                      *)
(***************************************************************************)
Reconciled(s) == last.op = "crudJob" /\ last.service = s

ShouldBeScheduled(svc) == EnableSaysTrue(svc) /\ ScheduleSaysValid(svc)

\* C1 as stated: when a reconcile of s returns, s is a key of the registry
\* if and only if the service, as it is now, exists with enable=true and an
\* accepted schedule
C1_PresentIffEnabledAndScheduled ==
    \A s \in Services :
        Reconciled(s) => (s \in DOMAIN jobs <=> ShouldBeScheduled(services[s]))

\* C1 (amended): when a reconcile of s returns, judged by the service
\* description it fetched: if that carries scaledown="true" the registry
\* holds s exactly if it held it before the call; otherwise s is a key of
\* the registry if and only if the service exists with enable=true and a
\* schedule the scheduler accepts
C1_PresentIffScheduledUnlessScaledown ==
    \A s \in Services :
        Reconciled(s) =>
            IF ScaledownMarked(last.svc)
            THEN (s \in DOMAIN jobs <=> last.found)
            ELSE (s \in DOMAIN jobs <=> ShouldBeScheduled(last.svc))

\* a reconcile removed the entry of a service whose labels were switched to enable=false
C1_Witness ==
    \E s \in Services :
        /\ Reconciled(s) /\ last.found /\ last.changed
        /\ LabelIs(last.svc, LabelEnable, "false")
        /\ ~ScaledownMarked(last.svc)
        /\ s \notin DOMAIN jobs

\* what C2 promises of a reconcile of s: one registry entry, one scheduler
\* entry, bound to the schedule label; one more entry than before when s was new
OneEntryFor(s) ==
    /\ s \in DOMAIN jobs
    /\ EntriesOf(s) = {jobs[s]}
    /\ entries[jobs[s]].Schedule = last.svc.Labels[LabelSchedule]
    /\ last.changed /\ ~last.err
    /\ Cardinality(DOMAIN jobs)
          = Cardinality(DOMAIN last.before.jobs) + (IF last.found THEN 0 ELSE 1)
    /\ Cardinality(DOMAIN entries)
          = Cardinality(DOMAIN last.before.entries) + (IF last.found THEN 0 ELSE 1)

\* C2 as stated: a reconcile of an enabled, validly scheduled service with no
\* entry creates exactly one registry entry and one scheduler entry, and a
\* second reconcile with the same labels leaves exactly one of each, same schedule
C2_ExactlyOneEntry ==
    \A s \in Services :
        (Reconciled(s) /\ ShouldBeScheduled(last.svc) /\ (~last.found \/ last.repeat))
            => OneEntryFor(s)

\* C2 (amended): the same, for a service that does not carry scaledown="true"
C2_ExactlyOneEntryUnlessScaledown ==
    \A s \in Services :
        (Reconciled(s) /\ ShouldBeScheduled(last.svc) /\ ~ScaledownMarked(last.svc)
         /\ (~last.found \/ last.repeat))
            => OneEntryFor(s)

\* the second reconcile with the same labels replaced the entry by a new one
C2_Witness ==
    \E s \in Services :
        /\ Reconciled(s) /\ ShouldBeScheduled(last.svc) /\ ~ScaledownMarked(last.svc)
        /\ last.repeat /\ last.found
        /\ jobs[s] # last.prevID
        /\ Cardinality(DOMAIN entries) = 2

\* C9: enable true, false, true with a reconcile after each change and the
\* other labels unchanged ends with the service registered under the schedule
\* it had after the first reconcile, and with the registry and the scheduler
\* as large as they were after the first reconcile
C9_ToggleRoundTrip ==
    toggle.phase = 5 =>
        /\ toggle.service \in DOMAIN jobs
        /\ entries[jobs[toggle.service]].Schedule = toggle.schedule
        /\ Cardinality(DOMAIN jobs) = toggle.jobs
        /\ Cardinality(DOMAIN entries) = toggle.entries

\* the round trip is complete, the entry was removed and created again, and
\* another service is registered too
C9_Witness ==
    /\ toggle.phase = 5
    /\ ~ScaledownMarked(last.svc)
    /\ Reconciled(toggle.service) /\ ~last.found /\ last.changed
    /\ Cardinality(DOMAIN jobs) = 2

\* C12 as stated: a reconcile of an enabled service whose schedule the
\* scheduler rejects returns an error and leaves the service without a
\* registry entry and without a scheduler entry, whether or not it had one;
\* and a service enters the registry only by a reconcile that fetched a
\* schedule the scheduler accepts
C12_RejectedScheduleUnschedules ==
    /\ [](\A s \in Services :
            (Reconciled(s) /\ EnableSaysTrue(last.svc) /\ ~ScheduleSaysValid(last.svc))
                => (last.err /\ s \notin DOMAIN jobs /\ EntriesOf(s) = {}))
    /\ [][\A s \in Services :
            (s \notin DOMAIN jobs /\ s \in DOMAIN jobs')
                => (/\ calls["a"].pc = "store" /\ calls["a"].service = s
                    /\ ScheduleSaysValid(calls["a"].svc))]_vars

\* C12 (amended): the same, for a service that does not carry scaledown="true"
C12_RejectedScheduleUnschedulesUnlessScaledown ==
    /\ [](\A s \in Services :
            (Reconciled(s) /\ EnableSaysTrue(last.svc) /\ ~ScheduleSaysValid(last.svc)
             /\ ~ScaledownMarked(last.svc))
                => (last.err /\ s \notin DOMAIN jobs /\ EntriesOf(s) = {}))
    /\ [][\A s \in Services :
            (s \notin DOMAIN jobs /\ s \in DOMAIN jobs')
                => (/\ calls["a"].pc = "store" /\ calls["a"].service = s
                    /\ ScheduleSaysValid(calls["a"].svc))]_vars

\* a registered service whose schedule label became "bad" was reconciled:
\* the call returned an error and the entry it had is gone
C12_Witness ==
    \E s \in Services :
        /\ Reconciled(s) /\ last.found /\ last.err
        /\ LabelIs(last.svc, LabelEnable, "true")
        /\ LabelIs(last.svc, LabelSchedule, "bad")
        /\ ~ScaledownMarked(last.svc)
        /\ s \notin DOMAIN jobs /\ last.prevID \notin DOMAIN entries

\* C13: a reconcile whose fetch found that the service no longer exists
\* removes the registry key and the scheduler entry it had and returns
\* (true, nil); with no entry it leaves registry and scheduler as they were
\* and returns (false, nil)
C13_VanishedServiceIsRemoved ==
    \A s \in Services :
        (Reconciled(s) /\ ~last.svc.exists)
            => IF last.found
               THEN /\ jobs = Without(last.before.jobs, s)
                    /\ entries = Without(last.before.entries, last.prevID)
                    /\ last.changed /\ ~last.err
               ELSE /\ jobs = last.before.jobs /\ entries = last.before.entries
                    /\ ~last.changed /\ ~last.err

\* a registered service was removed and reconciled while the other service
\* stays registered
C13_Witness ==
    \E s \in Services :
        /\ Reconciled(s) /\ ~last.svc.exists
        /\ last.found /\ last.changed /\ ~last.err
        /\ s \notin DOMAIN jobs /\ last.prevID \notin DOMAIN entries
        /\ Cardinality(DOMAIN jobs) = 1 /\ Cardinality(DOMAIN entries) = 1

\* C20: between the calls of crudJob the registry and the scheduler agree:
\* every value of the jobs map is the ID of a scheduler entry, distinct
\* services have distinct IDs, and every scheduler entry is the value of
\* some key of the jobs map
C20_RegistryAndSchedulerAgree ==
    ~InCall("a") =>
        /\ \A s \in DOMAIN jobs : jobs[s] \in DOMAIN entries
        /\ \A s, t \in DOMAIN jobs : s # t => jobs[s] # jobs[t]
        /\ \A id \in DOMAIN entries : \E s \in DOMAIN jobs : jobs[s] = id
        /\ Cardinality(DOMAIN entries) = Cardinality(DOMAIN jobs)

\* a registration failed for a service that had an entry, while the other
\* service is registered
C20_Witness ==
    \E s \in Services :
        /\ Reconciled(s) /\ last.err /\ last.found
        /\ Cardinality(DOMAIN jobs) = 1 /\ Cardinality(DOMAIN entries) = 1

(***************************************************************************)
(* Properties of the job spec builder.                                     *)
(***************************************************************************)
\* C7: every job registered with the scheduler has replicas >= 1
C7_ReplicasAtLeastOne ==
    \A id \in DOMAIN entries : entries[id].Job.Replicas >= 1

\* C8: a reconcile that fetched a service carrying scaledown="true" leaves
\* the registry and the scheduler as it found them and returns changed=false
\* without an error, whatever the other labels and the order in which the
\* labels are visited
C8_ScaledownIsNoOp ==
    \A s \in Services :
        (Reconciled(s) /\ ScaledownMarked(last.svc))
            => /\ jobs = last.before.jobs /\ entries = last.before.entries
               /\ nextID = last.before.nextID
               /\ ~last.changed /\ ~last.err

\* a registered service was reconciled while it carried scaledown="true" and
\* enable=false, and its entry is still the one it had
C8_Witness ==
    /\ Reconciled("s1") /\ ScaledownMarked(last.svc)
    /\ LabelIs(last.svc, LabelEnable, "false")
    /\ last.found /\ "s1" \in DOMAIN jobs /\ jobs["s1"] = last.prevID

\* C10: a reconcile that fetched labels whose enable label is false,
\* unparsable or absent, for a service that has no entry, creates no registry
\* or scheduler entry
C10_DisabledNeverCreates ==
    \A s \in Services :
        (Reconciled(s) /\ ~EnableSaysTrue(last.svc) /\ ~last.found)
            => /\ s \notin DOMAIN jobs
               /\ EntriesOf(s) = {}
               /\ entries = last.before.entries
               /\ ~last.changed

\* a service with an unparsable enable label and a valid schedule was reconciled
C10_Witness ==
    /\ Reconciled("s1") /\ ~last.found
    /\ LabelIs(last.svc, LabelEnable, "yes")
    /\ ScheduleSaysValid(last.svc)
    /\ ~ScaledownMarked(last.svc)

(***************************************************************************)
(* Properties of the external trigger endpoint and the completion waiter.  *)
(***************************************************************************)
\* RunJobByEvent has returned, or ended in a panic
AfterRunJobByEvent ==
    req.pc \in {"sleep", "wlookup", "wentry", "list", "loop", "poll", "logs", "done"}

WaitEnded == req.pc = "done" /\ req.polls >= 1

\* C3: a request for a service with no registry entry, for a job with event
\* runs disabled or with a key that differs from the job's key never calls
\* the job's Run; while no request was eligible the count of calls is zero
C3_RejectedRequestNeverRuns ==
    /\ (AfterRunJobByEvent /\ ~req.eligible) => ~req.ran
    /\ runs.eligible = 0 => runs.calls = 0

\* a request with the wrong key for a registered job with event runs enabled
\* went through RunJobByEvent, and Run was never called
C3_Witness ==
    /\ req.pc = "sleep" /\ req.mismatch /\ ~req.ran
    /\ KeyMismatch(req.service, req.key)
    /\ runs.calls = 0

\* C4: a request whose key does not match the key of a registered job with
\* event runs enabled ends with status 500
C4_KeyMismatchEndsWith500 ==
    (req.pc = "done" /\ req.mismatch) => req.status = 500

\* C5: for a triggered run, when poll k is the first to list a task C
\* outside the snapshot, and C is Complete, the wait fetches C's logs at
\* poll k and ends with status 200 and C's logs; and with a snapshot {A, B},
\* a wait whose polls listed no task outside it does not end before its
\* timeout
C5_CompletedAtTheFirstPollListingC ==
    /\ (/\ req.ran
        /\ req.firstNew.poll > 0
        /\ Cardinality(req.firstNew.new) = 1
        /\ req.firstNew.complete = req.firstNew.new)
           => /\ req.polls = req.firstNew.poll
              /\ \/ req.pc = "logs" /\ {req.watched} = req.firstNew.new
                 \/ /\ req.pc = "done" /\ req.status = 200
                    /\ {req.task} = req.firstNew.new
    /\ (req.ran /\ Cardinality(req.tasks) = 2 /\ WaitEnded /\ req.firstNew.poll = 0)
           => req.body = "Timeout"

\* C6: for a triggered run of a job with a timeout d > 0, a wait whose polls
\* listed only tasks of the snapshot ends with the timeout outcome, and not
\* before d has elapsed
C6_TimedOutAtOrAfterTheTimeout ==
    (req.ran /\ WaitEnded /\ req.configured > 0 /\ req.firstNew.poll = 0)
        => (req.body = "Timeout" /\ req.elapsed >= req.configured)

\* C14: a wait that entered its loop for a triggered run has the deadline of
\* the job's timeout label when that is a valid duration, and of the process
\* setting event-timeout when the label is absent or invalid; and no wait
\* ends with the timeout outcome before its first status poll in the loop
C14_WaitBoundedByLabelOrDefault ==
    (req.ran /\ req.watched # 0)
        => /\ req.timeout = (IF req.configured > 0 THEN req.configured
                                                   ELSE EventTimeoutDefault)
           /\ (req.body = "Timeout" => req.polls > 1)

\* the tasks outside the snapshot that a task list shows Complete or Failed
TerminalNewTasks(list, snapshot) ==
    {id \in NewTasks(list, snapshot) : list[id] \in {TaskStateComplete, TaskStateFailed}}

\* C15: a status poll of the wait loop of a triggered run whose task list
\* shows some task outside the snapshot Complete or Failed ends the wait with
\* the outcome of one of those tasks: it goes on to fetch the logs of a
\* Complete one, or returns 500 and the reason of a Failed one
C15_AnyTerminalNewTaskEndsTheWait ==
    [][(/\ req.ran /\ req.pc = "poll" /\ req'.polls = req.polls + 1
        /\ TerminalNewTasks(taskList[req.service], req.tasks) # {})
           => \/ /\ req'.pc = "logs"
                 /\ req'.watched \in CompleteTasks(taskList[req.service], req.tasks)
              \/ /\ req'.pc = "done" /\ req'.status = 500
                 /\ req'.task \in TerminalNewTasks(taskList[req.service], req.tasks)
                 /\ taskList[req.service][req'.task] = TaskStateFailed]_vars

(***************************************************************************)
(* Properties of the event listener.                                       *)
(***************************************************************************)
\* C19: the event loop ends only by an error of the error channel, never by
\* a message that failed to decode or whose reconcile returned an error;
\* every message it takes that decodes is passed to crudJob; and once the
\* error channel has ended it, no message is taken, no call of crudJob
\* begins and the registry and the scheduler do not change
C19_ListenerStopsOnlyOnStreamError ==
    /\ [](listener.pc = "exited" => listener.fatal)
    /\ [][(listener'.taken = listener.taken + 1 /\ listener'.dropped = listener.dropped)
             => /\ calls["a"].pc = "returned"
                /\ listener'.reconciled = listener.reconciled + 1]_vars
    /\ [][listener.fatal
             => /\ listener' = listener
                /\ calls' = calls
                /\ UNCHANGED <<jobs, entries, nextID>>]_vars

\* after a message that did not decode and a reconcile that returned an
\* error, a later message was reconciled and registered its service
C19_Witness ==
    /\ listener.pc = "listening"
    /\ listener.dropped >= 1 /\ listener.errors >= 1
    /\ calls["a"].pc = "returned" /\ calls["a"].changed /\ ~calls["a"].err
    /\ "s1" \in DOMAIN jobs

(***************************************************************************)
(* Properties of the failures of the orchestrator's calls.                 *)
(***************************************************************************)
\* C18: a Run whose docker.ServiceList failed returns without a call of
\* crudJob, without a registry entry and without starting the scheduler; a
\* reconcile whose docker.Service failed for a service that exists returns
\* an error and keeps the entry the service had; a request whose task list
\* or log fetch failed ends at that call with status 500
C18_OrchestratorFailuresAreReturned ==
    /\ proc.run = "failed"
          => (~InCall("a") /\ jobs = <<>> /\ entries = <<>> /\ proc.cron = "new")
    /\ (last.op = "crudJob" /\ last.fault)
          => /\ last.err
             /\ last.found
                   => (/\ last.service \in DOMAIN jobs
                       /\ jobs[last.service] = last.prevID)
    /\ req.fault # "" => (req.pc = "done" /\ req.status = 500)

(***************************************************************************)
(* Properties of the goroutines around the registry map.                   *)
(***************************************************************************)
\* C16: no access of a goroutine to the registry map overlaps a write of
\* the map by another goroutine
C16_NoOverlappingMapAccess ==
    \A p \in Procs : ~Overlaps(p)

(***************************************************************************)
(* Properties of the job runner.                                           *)
(***************************************************************************)
RunningTasks(s) == {id \in DOMAIN taskList[s] : taskList[s][id] = TaskStateRunning}

\* C17: the Run started by RunJobByEvent and the Run started by the
\* scheduler for the same service are never in progress at the same time,
\* and a service whose jobs all have skip-running set never has two tasks
\* running at once
C17_AtMostOneTrigger ==
    /\ ~(/\ InRun("cron") /\ InRun("event")
          /\ runner["cron"].service = runner["event"].service)
    /\ \A s \in Services : Cardinality(RunningTasks(s)) <= 1

(***************************************************************************)
(* Properties of the trigger path against the registry.                    *)
(***************************************************************************)
\* C21: RunJobByEvent and WaitForEnd never use the job of an entry the
\* scheduler no longer has, nor the job of a service the registry has no
\* entry for: no request ends in a panic, and a wait that listed the tasks
\* while the registry had no entry for the service ends with the error of
\* WaitForEnd
C21_TriggerNeverUsesMissingJob ==
    /\ req.body \notin {"panic", "nil pointer dereference"}
    /\ (req.pc = "done" /\ req.polls >= 1 /\ ~req.jobFound)
          => req.body = "task list not found"

====
